---- MODULE Spec2Model ----
(***************************************************************************)
(* QuizBuilder (src/src/components/QuizBuilder.tsx): a React component     *)
(* holding a token, the text of an uploaded PDF, quiz parameters and an    *)
(* editable, reorderable list of questions that a chat-completion reply    *)
(* can replace.  Every event handler is one action; the two asynchronous   *)
(* operations (parsePdf, fetch) have a start action and a settle action:    *)
(* pending holds the files being parsed, inflight the requests sent (each  *)
(* with the token and text its call captured).  alert is the message of    *)
(* the alert() dialog the last handler showed, "" when it showed none: the *)
(* dialog is modal and is dismissed before the next event is handled.      *)
(* obs is a history variable no handler reads: what the state was when    *)
(* the pending asynchronous operations started.                            *)
(***************************************************************************)
EXTENDS Integers, Sequences, FiniteSets

VARIABLES gptToken, pdfText, pdfName, quizParams, questions, quizTitle,
          loading, pending, inflight, alert, obs

vars == <<gptToken, pdfText, pdfName, quizParams, questions, quizTitle,
          loading, pending, inflight, alert, obs>>

(***************************************************************************)
(* Bounds of the model.                                                    *)
(***************************************************************************)
\* longest question list the manual add is explored to
MaxQuestions == 2
\* longest question sequence a reply carries
MaxReply == 2
\* longest list the reordering is explored on
MaxListLen == 4
\* parsePdf promises pending at once
MaxUploads == 2
\* characters typed into the count field
MaxInputLen == 3
\* Date.now() returns the current millisecond, a number far above any list
\* index; two calls return the same value or different ones
Epoch == 10

Clock == {Epoch, Epoch + 1}
\* Math.random().toString(36).substr(2, 9): two calls return the same suffix
\* or different ones
Rnd == {0, 1}

(***************************************************************************)
(* Data.                                                                   *)
(***************************************************************************)
QuestionTypes == {"courte", "longue", "note5"}
Difficulties == {"facile", "moyen", "difficile"}
DefaultCount == 5
DefaultTitle == "Mon Quiz Personnalisé"

\* `question-${a}-${b}`: the two interpolated numbers, in order
QuestionId(a, b) == <<a, b>>

\* values typed or selected by the user
Tokens == {"", "sk"}
EditTitles == {"t"}
EditDescriptions == {"d"}
QuizTitles == {"T"}

\* files the user can select: c.pdf is not a parsable PDF
Files == { [name |-> "a.pdf", text |-> "A", valid |-> TRUE],
           [name |-> "b.pdf", text |-> "B", valid |-> TRUE],
           [name |-> "c.pdf", text |-> "",  valid |-> FALSE] }

Min(a, b) == IF a < b THEN a ELSE b
Max(a, b) == IF a > b THEN a ELSE b

(***************************************************************************)
(* Array.prototype.splice on a 0-based array held as a 1-based sequence.   *)
(***************************************************************************)
\* the start index splice really uses: negative counts from the end, and
\* the result is clamped to 0 .. length
SpliceStart(arr, start) ==
    IF start < 0 THEN Max(Len(arr) + start, 0) ELSE Min(start, Len(arr))

\* arr after arr.splice(start, 1)
SpliceDelete(arr, start) ==
    LET s == SpliceStart(arr, start)
    IN  IF s >= Len(arr) THEN arr
        ELSE SubSeq(arr, 1, s) \o SubSeq(arr, s + 2, Len(arr))

\* what arr.splice(start, 1) returns: the removed elements
SpliceRemoved(arr, start) ==
    LET s == SpliceStart(arr, start)
    IN  IF s >= Len(arr) THEN << >> ELSE << arr[s + 1] >>

\* arr after arr.splice(start, 0, item)
SpliceInsert(arr, start, item) ==
    LET s == SpliceStart(arr, start)
    IN  SubSeq(arr, 1, s) \o << item >> \o SubSeq(arr, s + 1, Len(arr))

\* the value of `undefined` when it is stored in the list
Undefined == [id |-> << >>, title |-> "undefined", description |-> "undefined",
              type |-> "undefined"]

\* const [x] = removedArray
First(removedArray) ==
    IF removedArray = << >> THEN Undefined ELSE removedArray[1]

reorder(list, startIndex, endIndex) ==
    LET removed == First(SpliceRemoved(list, startIndex))
        result  == SpliceDelete(list, startIndex)
    IN  SpliceInsert(result, endIndex, removed)

(***************************************************************************)
(* parseInt(value, 10) || 5, the count field's conversion.  The typed      *)
(* value is a sequence of characters.                                      *)
(***************************************************************************)
Digits == <<"0", "1", "2", "3", "4", "5", "6", "7", "8", "9">>
IsDigit(c) == \E i \in 1..Len(Digits) : Digits[i] = c
DigitValue(c) == (CHOOSE i \in 1..Len(Digits) : Digits[i] = c) - 1

\* characters the count field is fed
InputChars == {"-", "0", "1", "2", "x"}

\* length of the longest prefix of s made of digits
RECURSIVE DigitPrefixLen(_)
DigitPrefixLen(s) ==
    IF s = << >> \/ ~IsDigit(Head(s)) THEN 0 ELSE 1 + DigitPrefixLen(Tail(s))

\* value of a sequence of digits in base 10
RECURSIVE DecimalValue(_)
DecimalValue(s) ==
    IF s = << >> THEN 0
    ELSE 10 * DecimalValue(SubSeq(s, 1, Len(s) - 1)) + DigitValue(s[Len(s)])

\* parseInt(s, 10): an optional sign, then the longest run of digits; NaN
\* when there is no digit.  -0 and 0 are the same falsy number.
parseInt(s) ==
    LET signed == s # << >> /\ Head(s) \in {"-", "+"}
        body   == IF signed THEN Tail(s) ELSE s
        n      == DigitPrefixLen(body)
        v      == DecimalValue(SubSeq(body, 1, n))
    IN  IF n = 0 THEN [nan |-> TRUE, val |-> 0]
        ELSE [nan |-> FALSE, val |-> IF signed /\ Head(s) = "-" THEN 0 - v ELSE v]

\* x || 5 on a number: NaN and 0 are falsy
OrDefault(x) == IF x.nan \/ x.val = 0 THEN DefaultCount ELSE x.val

questionCountOf(value) == OrDefault(parseInt(value))

(***************************************************************************)
(* generateQuizWithGPT: what it makes of the endpoint's reply.             *)
(***************************************************************************)
MsgTokenMissing == "GPT Token is missing!"
MsgHttp == "Erreur API GPT: 401 - Unauthorized"
MsgTypeError == "Cannot read properties of undefined (reading '0')"
MsgNoFence == "Format de réponse GPT invalide"
MsgBadJson == "Le JSON GPT est mal formaté."
MsgMissingFields == "Le JSON GPT ne contient pas 'title' ou 'questions'."
MsgNeedInputs == "Veuillez renseigner un token GPT et un PDF."
MsgPdf == "Impossible de lire le PDF."

\* questions a reply carries: one without id, one with a numeric id
ReplyQuestion(rid, title) ==
    [id |-> rid, title |-> title, description |-> "gd", type |-> "longue"]
\* question sequences of a reply, of every length up to n: the two
\* questions in turn, and the one with an id over and over
ReplySequences(n) ==
    { [i \in 1..k |-> IF i % 2 = 1 THEN ReplyQuestion(<<1>>, "h")
                                    ELSE ReplyQuestion(<< >>, "g")] : k \in 0..n }
    \cup { [i \in 1..k |-> ReplyQuestion(<<1>>, "h")] : k \in 0..n }

RECURSIVE SeqsUpTo(_, _)
SeqsUpTo(S, n) ==
    IF n = 0 THEN { << >> }
    ELSE LET shorter == SeqsUpTo(S, n - 1)
         IN  shorter \cup { Append(q, x) : q \in shorter, x \in S }

\* kind: "http" a non-2xx response; "shape" a 2xx body without
\* choices[0].message.content; "nofence" content without a ```json block;
\* "badjson" a block JSON.parse rejects; "json" a block it accepts, an object
\* whose title is `title` ("" when absent) and whose questions field is
\* absent, something that is not an array, or the array `questions`.
Reply(kind, title, qkind, qs) ==
    [kind |-> kind, title |-> title, qkind |-> qkind, questions |-> qs]
Replies ==
    { Reply(k, "", "absent", << >>) : k \in {"http", "shape", "nofence", "badjson"} }
    \cup { Reply("json", t, k, << >>) : t \in {"", "G"}, k \in {"absent", "other"} }
    \cup { Reply("json", "", "array", qs) : qs \in ReplySequences(1) }
    \cup { Reply("json", "G", "array", qs) : qs \in ReplySequences(MaxReply) }

\* quiz.questions.map((q, index) => ({...q, id: `question-${index}-${Date.now()}`}))
\* stamps[i] is what Date.now() returned for the element at index i - 1
Restamp(qs, stamps) ==
    [i \in 1..Len(qs) |-> [qs[i] EXCEPT !.id = QuestionId(i - 1, stamps[i])]]

Threw(msg) == [ok |-> FALSE, error |-> msg, quiz |-> [title |-> "", questions |-> << >>]]
Returned(quiz) == [ok |-> TRUE, error |-> "", quiz |-> quiz]

\* the try block: JSON.parse then the map; any exception in it is caught
\* and rethrown as MsgBadJson
ParseAndStamp(reply, stamps) ==
    IF reply.kind = "badjson" THEN Threw(MsgBadJson)
    ELSE IF reply.qkind # "array" THEN Threw(MsgBadJson)
    ELSE Returned([title |-> reply.title,
                   questions |-> Restamp(reply.questions, stamps)])

\* if (!quiz.title || !Array.isArray(quiz.questions)): after the map,
\* quiz.questions is an array
Validate(quiz) ==
    IF quiz.title = "" THEN Threw(MsgMissingFields) ELSE Returned(quiz)

generateQuizWithGPT(token, reply, stamps) ==
    IF token = "" THEN Threw(MsgTokenMissing)
    ELSE IF reply.kind = "http" THEN Threw(MsgHttp)
    ELSE IF reply.kind = "shape" THEN Threw(MsgTypeError)
    ELSE IF reply.kind = "nofence" THEN Threw(MsgNoFence)
    ELSE LET r == ParseAndStamp(reply, stamps)
         IN  IF ~r.ok THEN r ELSE Validate(r.quiz)

(***************************************************************************)
(* parsePdf: the promise's outcome for a file.  readOk is whether the      *)
(* FileReader loaded the bytes.                                            *)
(***************************************************************************)
parsePdf(file, readOk) ==
    IF ~readOk THEN [ok |-> FALSE, text |-> ""]
    ELSE IF ~file.valid THEN [ok |-> FALSE, text |-> ""]
    ELSE [ok |-> TRUE, text |-> file.text]


(***************************************************************************)
(* The component's state after construction.                               *)
(***************************************************************************)
Init ==
    /\ gptToken = ""
    /\ pdfText = ""
    /\ pdfName = ""
    /\ quizParams = [difficulty |-> "facile", questionCount |-> DefaultCount]
    /\ questions = << >>
    /\ quizTitle = DefaultTitle
    /\ loading = FALSE
    /\ pending = {}
    /\ inflight = << >>
    /\ alert = ""

(***************************************************************************)
(* Form fields.                                                            *)
(***************************************************************************)
SetGptToken(v) ==
    /\ gptToken' = v
    /\ alert' = ""
    /\ UNCHANGED <<pdfText, pdfName, quizParams, questions, quizTitle,
                   loading, pending, inflight>>

SetDifficulty(d) ==
    /\ quizParams' = [quizParams EXCEPT !.difficulty = d]
    /\ alert' = ""
    /\ UNCHANGED <<gptToken, pdfText, pdfName, questions, quizTitle,
                   loading, pending, inflight>>

SetQuestionCount(value) ==
    /\ quizParams' = [quizParams EXCEPT !.questionCount = questionCountOf(value)]
    /\ alert' = ""
    /\ UNCHANGED <<gptToken, pdfText, pdfName, questions, quizTitle,
                   loading, pending, inflight>>

SetQuizTitle(v) ==
    /\ quizTitle' = v
    /\ alert' = ""
    /\ UNCHANGED <<gptToken, pdfText, pdfName, quizParams, questions,
                   loading, pending, inflight>>

(***************************************************************************)
(* PDF upload.  pending holds the files whose parsePdf promise has not     *)
(* settled; promises settle in any order.                                  *)
(***************************************************************************)
HandlePdfUpload(file) ==
    /\ Cardinality(pending) < MaxUploads
    /\ file \notin pending
    /\ pdfName' = file.name
    /\ pending' = pending \cup {file}
    /\ alert' = ""
    /\ UNCHANGED <<gptToken, pdfText, quizParams, questions, quizTitle,
                   loading, inflight>>

\* the change event of a cancelled file dialog: files[0] is undefined
HandlePdfUploadNoFile ==
    /\ alert' = ""
    /\ UNCHANGED <<gptToken, pdfText, pdfName, quizParams, questions, quizTitle,
                   loading, pending, inflight>>

\* handlePdfUpload from the await on: the file's promise settles
ParsePdfSettle(file, readOk) ==
    /\ file \in pending
    /\ pending' = pending \ {file}
    /\ LET r == parsePdf(file, readOk)
       IN  IF r.ok
           THEN /\ pdfText' = r.text
                /\ alert' = ""
           ELSE /\ alert' = MsgPdf
                /\ UNCHANGED pdfText
    /\ UNCHANGED <<gptToken, pdfName, quizParams, questions, quizTitle,
                   loading, inflight>>

(***************************************************************************)
(* The question list.                                                      *)
(***************************************************************************)
Ids(qs) == { qs[i].id : i \in 1..Len(qs) }

\* now is what Date.now() returned, rnd the random suffix
NewQuestion(now, rnd) ==
    [id |-> QuestionId(now, rnd), title |-> "Nouvelle question",
     description |-> "", type |-> "courte"]

AddQuestion(now, rnd) ==
    /\ Len(questions) < MaxQuestions
    /\ questions' = Append(questions, NewQuestion(now, rnd))
    /\ alert' = ""
    /\ UNCHANGED <<gptToken, pdfText, pdfName, quizParams, quizTitle,
                   loading, pending, inflight>>

RemoveQuestion(id) ==
    /\ questions' = SelectSeq(questions, LAMBDA q : q.id # id)
    /\ alert' = ""
    /\ UNCHANGED <<gptToken, pdfText, pdfName, quizParams, quizTitle,
                   loading, pending, inflight>>

EditTitle(id, newTitle) ==
    /\ questions' = [i \in 1..Len(questions) |->
                        IF questions[i].id = id
                        THEN [questions[i] EXCEPT !.title = newTitle]
                        ELSE questions[i]]
    /\ alert' = ""
    /\ UNCHANGED <<gptToken, pdfText, pdfName, quizParams, quizTitle,
                   loading, pending, inflight>>

EditDescription(id, newDesc) ==
    /\ questions' = [i \in 1..Len(questions) |->
                        IF questions[i].id = id
                        THEN [questions[i] EXCEPT !.description = newDesc]
                        ELSE questions[i]]
    /\ alert' = ""
    /\ UNCHANGED <<gptToken, pdfText, pdfName, quizParams, quizTitle,
                   loading, pending, inflight>>

EditType(id, newType) ==
    /\ questions' = [i \in 1..Len(questions) |->
                        IF questions[i].id = id
                        THEN [questions[i] EXCEPT !.type = newType]
                        ELSE questions[i]]
    /\ alert' = ""
    /\ UNCHANGED <<gptToken, pdfText, pdfName, quizParams, quizTitle,
                   loading, pending, inflight>>

\* OnDragEnd exchanging the two questions instead of moving one
OnDragEndSwaps(source, destination) ==
    /\ questions' = [i \in 1..Len(questions) |->
                        IF i = source + 1 THEN questions[destination + 1]
                        ELSE IF i = destination + 1 THEN questions[source + 1]
                        ELSE questions[i]]
    /\ alert' = ""
    /\ UNCHANGED <<gptToken, pdfText, pdfName, quizParams, quizTitle,
                   loading, pending, inflight>>

\* a drop on the list: source and destination are indices of the rendered list
OnDragEnd(source, destination) ==
    /\ LET items         == questions
           reorderedItem == First(SpliceRemoved(items, source))
           afterRemove   == SpliceDelete(items, source)
       IN  questions' = SpliceInsert(afterRemove, destination, reorderedItem)
    /\ alert' = ""
    /\ UNCHANGED <<gptToken, pdfText, pdfName, quizParams, quizTitle,
                   loading, pending, inflight>>

\* a drop outside the list: result.destination is null
OnDragEndNoDestination ==
    /\ alert' = ""
    /\ UNCHANGED <<gptToken, pdfText, pdfName, quizParams, questions, quizTitle,
                   loading, pending, inflight>>

(***************************************************************************)
(* Generation.                                                             *)
(***************************************************************************)
\* the disabled attribute without the loading flag
GenerateDisabledIgnoresLoading == gptToken = "" \/ pdfText = ""

\* the button's disabled attribute
GenerateDisabled == loading \/ gptToken = "" \/ pdfText = ""

\* generateQuiz up to its await
generateQuiz ==
    /\ IF gptToken = "" \/ pdfText = ""
       THEN /\ alert' = MsgNeedInputs
            /\ UNCHANGED <<loading, inflight>>
       ELSE /\ loading' = TRUE
            /\ inflight' = Append(inflight, [gptToken |-> gptToken, pdfText |-> pdfText,
                                             quizParams |-> quizParams])
            /\ alert' = ""
    /\ UNCHANGED <<gptToken, pdfText, pdfName, quizParams, questions, quizTitle,
                   pending>>

\* a click of the button, which only an enabled button delivers
GenerateClick ==
    /\ ~GenerateDisabled
    /\ generateQuiz

\* GenerateSettle emptying the list when the request fails
GenerateSettleClearsOnFailure(reply, stamps) ==
    /\ inflight # << >>
    /\ LET r == generateQuizWithGPT(Head(inflight).gptToken, reply, stamps)
       IN  IF r.ok
           THEN /\ questions' = r.quiz.questions
                /\ quizTitle' = r.quiz.title
                /\ alert' = ""
           ELSE /\ alert' = r.error
                /\ questions' = << >>
                /\ UNCHANGED quizTitle
    /\ loading' = FALSE
    /\ inflight' = Tail(inflight)
    /\ UNCHANGED <<gptToken, pdfText, pdfName, quizParams, pending>>

\* GenerateSettle appending the generated questions to the list
GenerateSettleAppends(reply, stamps) ==
    /\ inflight # << >>
    /\ LET r == generateQuizWithGPT(Head(inflight).gptToken, reply, stamps)
       IN  IF r.ok
           THEN /\ questions' = questions \o r.quiz.questions
                /\ quizTitle' = r.quiz.title
                /\ alert' = ""
           ELSE /\ alert' = r.error
                /\ UNCHANGED <<questions, quizTitle>>
    /\ loading' = FALSE
    /\ inflight' = Tail(inflight)
    /\ UNCHANGED <<gptToken, pdfText, pdfName, quizParams, pending>>

\* GenerateSettle resetting the flag after the try block instead of in a
\* finally: a request that fails leaves it set
GenerateSettleNoFinally(reply, stamps) ==
    /\ inflight # << >>
    /\ LET r == generateQuizWithGPT(Head(inflight).gptToken, reply, stamps)
       IN  IF r.ok
           THEN /\ questions' = r.quiz.questions
                /\ quizTitle' = r.quiz.title
                /\ alert' = ""
                /\ loading' = FALSE
           ELSE /\ alert' = r.error
                /\ UNCHANGED <<questions, quizTitle, loading>>
    /\ inflight' = Tail(inflight)
    /\ UNCHANGED <<gptToken, pdfText, pdfName, quizParams, pending>>

\* generateQuiz from the await on: the oldest request settles with `reply`
GenerateSettle(reply, stamps) ==
    /\ inflight # << >>
    /\ LET r == generateQuizWithGPT(Head(inflight).gptToken, reply, stamps)
       IN  IF r.ok
           THEN /\ questions' = r.quiz.questions
                /\ quizTitle' = r.quiz.title
                /\ alert' = ""
           ELSE /\ alert' = r.error
                /\ UNCHANGED <<questions, quizTitle>>
    /\ loading' = FALSE
    /\ inflight' = Tail(inflight)
    /\ UNCHANGED <<gptToken, pdfText, pdfName, quizParams, pending>>

(***************************************************************************)
(* The history variable.  obs.atClick holds the list and title when the    *)
(* pending generation was triggered (empty when none is pending);          *)
(* obs.atUpload the name and text when each pending upload started;        *)
(* obs.uploadFailed whether an extraction failed since an upload last      *)
(* started with none pending.                                              *)
(***************************************************************************)
InitObs == obs = [atClick |-> << >>, atUpload |-> {}, uploadFailed |-> FALSE]

ObsClick ==
    obs' = [obs EXCEPT !.atClick = << [questions |-> questions, quizTitle |-> quizTitle] >>]
ObsGenerateSettle ==
    obs' = [obs EXCEPT !.atClick = << >>]
ObsUpload(file) ==
    obs' = [obs EXCEPT
              !.atUpload = @ \cup {[file |-> file.name, pdfName |-> pdfName, pdfText |-> pdfText]},
              !.uploadFailed = IF pending = {} THEN FALSE ELSE @]
ObsParseSettle(file, readOk) ==
    obs' = [obs EXCEPT
              !.atUpload = { u \in @ : u.file # file.name },
              !.uploadFailed = IF parsePdf(file, readOk).ok THEN @ ELSE TRUE]

\* what obs recorded when the pending upload of `file` started
AtUpload(file) == CHOOSE u \in obs.atUpload : u.file = file.name

StampsFor(reply) == [1..Len(reply.questions) -> Clock]
DragIndices == 0..(Len(questions) - 1)
CountInputs == SeqsUpTo(InputChars, MaxInputLen)

(***************************************************************************)
(* The whole component.                                                    *)
(***************************************************************************)
Next ==
    \/ \E v \in Tokens : SetGptToken(v) /\ UNCHANGED obs
    \/ \E d \in Difficulties : SetDifficulty(d) /\ UNCHANGED obs
    \/ \E value \in CountInputs : SetQuestionCount(value) /\ UNCHANGED obs
    \/ \E v \in QuizTitles : SetQuizTitle(v) /\ UNCHANGED obs
    \/ \E f \in Files : HandlePdfUpload(f) /\ ObsUpload(f)
    \/ HandlePdfUploadNoFile /\ UNCHANGED obs
    \/ \E f \in Files, readOk \in BOOLEAN : ParsePdfSettle(f, readOk) /\ ObsParseSettle(f, readOk)
    \/ \E now \in Clock, rnd \in Rnd : AddQuestion(now, rnd) /\ UNCHANGED obs
    \/ \E id \in Ids(questions) : RemoveQuestion(id) /\ UNCHANGED obs
    \/ \E id \in Ids(questions), t \in EditTitles : EditTitle(id, t) /\ UNCHANGED obs
    \/ \E id \in Ids(questions), d \in EditDescriptions : EditDescription(id, d) /\ UNCHANGED obs
    \/ \E id \in Ids(questions), t \in QuestionTypes : EditType(id, t) /\ UNCHANGED obs
    \/ \E s \in DragIndices, d \in DragIndices : OnDragEnd(s, d) /\ UNCHANGED obs
    \/ OnDragEndNoDestination /\ UNCHANGED obs
    \/ GenerateClick /\ ObsClick
    \/ \E reply \in Replies : \E stamps \in StampsFor(reply) :
         GenerateSettle(reply, stamps) /\ ObsGenerateSettle

InitAll == Init /\ InitObs

Spec == InitAll /\ [][Next]_vars

(***************************************************************************)
(* The form filled in: a token typed, a.pdf uploaded and parsed.           *)
(***************************************************************************)
InitReady ==
    /\ gptToken = "sk"
    /\ pdfText = "A"
    /\ pdfName = "a.pdf"
    /\ quizParams = [difficulty |-> "facile", questionCount |-> DefaultCount]
    /\ questions = << >>
    /\ quizTitle = DefaultTitle
    /\ loading = FALSE
    /\ pending = {}
    /\ inflight = << >>
    /\ alert = ""

(***************************************************************************)
(* Editing the list and generating, the rest of the form left alone.       *)
(***************************************************************************)
NextQuiz ==
    \/ \E v \in QuizTitles : SetQuizTitle(v) /\ UNCHANGED obs
    \/ \E now \in Clock, rnd \in Rnd : AddQuestion(now, rnd) /\ UNCHANGED obs
    \/ \E id \in Ids(questions) : RemoveQuestion(id) /\ UNCHANGED obs
    \/ \E id \in Ids(questions), t \in EditTitles : EditTitle(id, t) /\ UNCHANGED obs
    \/ \E s \in DragIndices, d \in DragIndices : OnDragEnd(s, d) /\ UNCHANGED obs
    \/ OnDragEndNoDestination /\ UNCHANGED obs
    \/ GenerateClick /\ UNCHANGED obs
    \/ \E reply \in Replies : \E stamps \in StampsFor(reply) :
         GenerateSettle(reply, stamps) /\ UNCHANGED obs

InitQuiz == InitReady /\ InitObs

SpecQuiz == InitQuiz /\ [][NextQuiz]_vars

(***************************************************************************)
(* The three field edits, with adding, removing, moving and generating.    *)
(***************************************************************************)
NextEdit ==
    \/ \E now \in Clock, rnd \in Rnd : AddQuestion(now, rnd) /\ UNCHANGED obs
    \/ \E id \in Ids(questions) : RemoveQuestion(id) /\ UNCHANGED obs
    \/ \E id \in Ids(questions), t \in EditTitles : EditTitle(id, t) /\ UNCHANGED obs
    \/ \E id \in Ids(questions), d \in EditDescriptions : EditDescription(id, d) /\ UNCHANGED obs
    \/ \E id \in Ids(questions), t \in QuestionTypes : EditType(id, t) /\ UNCHANGED obs
    \/ \E s \in DragIndices, d \in DragIndices : OnDragEnd(s, d) /\ UNCHANGED obs
    \/ GenerateClick /\ UNCHANGED obs
    \/ \E reply \in Replies : \E stamps \in StampsFor(reply) :
         GenerateSettle(reply, stamps) /\ UNCHANGED obs

SpecEdit == InitQuiz /\ [][NextEdit]_vars

(***************************************************************************)
(* A generation with the list and the title changed while it is pending;   *)
(* obs records what they were at the click.                                *)
(***************************************************************************)
NextFail ==
    \/ \E v \in QuizTitles : SetQuizTitle(v) /\ UNCHANGED obs
    \/ \E now \in Clock, rnd \in Rnd : AddQuestion(now, rnd) /\ UNCHANGED obs
    \/ \E id \in Ids(questions) : RemoveQuestion(id) /\ UNCHANGED obs
    \/ GenerateClick /\ ObsClick
    \/ \E reply \in Replies : \E stamps \in StampsFor(reply) :
         GenerateSettle(reply, stamps) /\ ObsGenerateSettle

SpecFail == InitQuiz /\ [][NextFail]_vars

(***************************************************************************)
(* Generation alone, every request sent settling in the end.               *)
(***************************************************************************)
Settle ==
    \E reply \in Replies : \E stamps \in StampsFor(reply) :
        GenerateSettle(reply, stamps) /\ UNCHANGED obs

NextGen ==
    \/ \E v \in Tokens : SetGptToken(v) /\ UNCHANGED obs
    \/ \E v \in QuizTitles : SetQuizTitle(v) /\ UNCHANGED obs
    \/ GenerateClick /\ UNCHANGED obs
    \/ Settle

SpecGen == InitQuiz /\ [][NextGen]_vars /\ WF_vars(Settle)

(***************************************************************************)
(* Uploads from the constructed state; obs records the name and text at    *)
(* each selection.                                                         *)
(***************************************************************************)
NextPdf ==
    \/ \E v \in Tokens : SetGptToken(v) /\ UNCHANGED obs
    \/ \E f \in Files : HandlePdfUpload(f) /\ ObsUpload(f)
    \/ HandlePdfUploadNoFile /\ UNCHANGED obs
    \/ \E f \in Files, readOk \in BOOLEAN : ParsePdfSettle(f, readOk) /\ ObsParseSettle(f, readOk)

SpecPdf == InitAll /\ [][NextPdf]_vars

(***************************************************************************)
(* The quiz parameters from the constructed state.                         *)
(***************************************************************************)
NextParams ==
    \/ \E v \in Tokens : SetGptToken(v) /\ UNCHANGED obs
    \/ \E d \in Difficulties : SetDifficulty(d) /\ UNCHANGED obs
    \/ \E value \in CountInputs : SetQuestionCount(value) /\ UNCHANGED obs

SpecParams == InitAll /\ [][NextParams]_vars

(***************************************************************************)
(* Reordering every generated list of up to MaxListLen questions.          *)
(***************************************************************************)
GeneratedLists ==
    { Restamp([i \in 1..Len(stamps) |-> ReplyQuestion(<< >>, "g")], stamps) :
        stamps \in UNION { [1..n -> Clock] : n \in 0..MaxListLen } }

InitReorder ==
    /\ gptToken = "sk"
    /\ pdfText = "A"
    /\ pdfName = "a.pdf"
    /\ quizParams = [difficulty |-> "facile", questionCount |-> DefaultCount]
    /\ questions \in GeneratedLists
    /\ quizTitle = "G"
    /\ loading = FALSE
    /\ pending = {}
    /\ inflight = << >>
    /\ alert = ""
    /\ InitObs

NextReorder ==
    \/ \E s \in DragIndices, d \in DragIndices : OnDragEnd(s, d) /\ UNCHANGED obs
    \/ OnDragEndNoDestination /\ UNCHANGED obs

SpecReorder == InitReorder /\ [][NextReorder]_vars

(***************************************************************************)
(* Properties.                                                             *)
(***************************************************************************)
Failures == {MsgHttp, MsgTypeError, MsgNoFence, MsgBadJson, MsgMissingFields}

\* what generateQuizWithGPT makes of `reply` for the request about to settle
Outcome(reply, stamps) ==
    generateQuizWithGPT(Head(inflight).gptToken, reply, stamps)

\* list without the element at 1-based position k
Without(list, k) ==
    [j \in 1..(Len(list) - 1) |-> IF j < k THEN list[j] ELSE list[j + 1]]

\* C1: in every reachable state no two questions of the list have the same
\* id.
C1_UniqueIds ==
    \A i \in 1..Len(questions), j \in 1..Len(questions) :
        i # j => questions[i].id # questions[j].id

\* C2 as stated: a generation that fails leaves the list and the title as
\* they were when generateQuiz was triggered, and no request in flight.
C2_AsWhenTriggered ==
    [][alert' \in Failures
       => /\ questions' = Head(obs.atClick).questions
          /\ quizTitle' = Head(obs.atClick).quizTitle
          /\ inflight' = << >>]_vars

\* C2 as amended: the step in which a generation fails (the one that shows
\* its error) leaves the list and the title as they were just before it,
\* what the user changed while the request was pending included, resets
\* the loading flag and leaves no request in flight.
C2_FailureChangesNothing ==
    [][alert' \in Failures
       => /\ inflight # << >>
          /\ questions' = questions
          /\ quizTitle' = quizTitle
          /\ ~loading'
          /\ inflight' = << >>]_vars

\* C2 witness: a request has just failed on a list and a title the user
\* changed while it was pending.
C2_FailedAfterEdits ==
    /\ alert = MsgNoFence
    /\ Len(questions) = 1
    /\ quizTitle = "T"
    /\ inflight = << >>

\* C3: a failed upload leaves pdfText and pdfName as they were when that
\* upload started.
C3_FailedUploadKeepsState ==
    [][\A f \in Files, readOk \in BOOLEAN :
          (ParsePdfSettle(f, readOk) /\ ~parsePdf(f, readOk).ok)
          => /\ pdfText' = AtUpload(f).pdfText
             /\ pdfName' = AtUpload(f).pdfName]_vars

\* C4: at most one generation request is in flight, and the button is
\* disabled while one is.
C4_SingleInFlight ==
    /\ Len(inflight) <= 1
    /\ inflight # << >> => GenerateDisabled

\* C4 witness: a request is in flight while the token and the text are
\* still there, so that only the loading flag disables the button.
C4_InFlight ==
    /\ Len(inflight) = 1
    /\ gptToken # ""
    /\ pdfText # ""

\* C5: the step in which a generation succeeds (a request settles and no
\* error is shown) leaves exactly the reply's questions, in the reply's
\* order and with ids of the generated form, and the reply's title.
C5_ReplacesWholesale ==
    [][(inflight # << >> /\ inflight' = Tail(inflight) /\ alert' = "")
       => \A reply \in Replies : \A stamps \in StampsFor(reply) :
            GenerateSettle(reply, stamps)
            => /\ Len(questions') = Len(reply.questions)
               /\ \A i \in 1..Len(reply.questions) :
                     /\ questions'[i].title = reply.questions[i].title
                     /\ questions'[i].description = reply.questions[i].description
                     /\ questions'[i].type = reply.questions[i].type
                     /\ questions'[i].id = QuestionId(i - 1, stamps[i])
               /\ quizTitle' = reply.title]_vars

\* C5 witness: a two-question quiz has just replaced the list.
C5_Replaced ==
    /\ ~loading
    /\ quizTitle = "G"
    /\ Len(questions) = 2
    /\ questions[1].id[1] = 0 /\ questions[1].title = "h"
    /\ questions[2].id[1] = 1 /\ questions[2].title = "g"

\* C6: a drop on the list keeps the length, puts the dragged question at
\* the destination index and keeps the others in their order (which is
\* what reorder computes); a drop outside the list changes nothing.
C6_MovesOne ==
    [][/\ \A s \in DragIndices, d \in DragIndices :
             OnDragEnd(s, d)
             => /\ Len(questions') = Len(questions)
                /\ questions'[d + 1] = questions[s + 1]
                /\ Without(questions', d + 1) = Without(questions, s + 1)
                /\ questions' = reorder(questions, s, d)
       /\ OnDragEndNoDestination => questions' = questions]_vars

\* C6 witness: in a list of four the last question has been moved to the
\* front.
C6_Moved ==
    /\ Len(questions) = 4
    /\ questions[1].id[1] = 3
    /\ \A i \in 2..4 : questions[i].id[1] = i - 2

\* C7: a quiz is returned exactly when the fenced JSON has a title and a
\* question sequence; no fenced block, text that is not JSON, and JSON
\* lacking the title or the question sequence each show their own message.
C7_OwnMessage ==
    [][\A reply \in Replies : \A stamps \in StampsFor(reply) :
          GenerateSettle(reply, stamps)
          => /\ Outcome(reply, stamps).ok
                  <=> (reply.kind = "json" /\ reply.title # "" /\ reply.qkind = "array")
             /\ reply.kind = "nofence" => alert' = MsgNoFence
             /\ reply.kind = "badjson" => alert' = MsgBadJson
             /\ (reply.kind = "json" /\ (reply.title = "" \/ reply.qkind # "array"))
                  => alert' = MsgMissingFields]_vars

\* C8: the question count is a positive integer in every reachable state.
C8_PositiveCount ==
    quizParams.questionCount > 0

\* C9: loading is true exactly while a request is in flight, no step taken
\* without a token or without PDF text sets it, and once set it is reset.
C9_LoadingTracksRequest ==
    /\ [](loading <=> inflight # << >>)
    /\ [][(gptToken = "" \/ pdfText = "") => ~(~loading /\ loading')]_vars
    /\ (loading ~> ~loading)

\* C9 witness: a request has just failed and the flag is down again, the
\* token still there.
C9_ResetAfterFailure ==
    /\ alert \in Failures
    /\ ~loading
    /\ gptToken # ""

\* C10: once every extraction has settled, none having failed, pdfText is
\* the text of the file pdfName names.
TextOf(name) == (CHOOSE f \in Files : f.name = name).text
C10_LastSelectedWins ==
    (pending = {} /\ pdfName # "" /\ ~obs.uploadFailed) => pdfText = TextOf(pdfName)

====
